---- MODULE Spec2Model ----
(***************************************************************************)
(* Model of the chat broker of src/chat_server.c: the listener's accept    *)
(* loop, one client_serve thread per accepted connection, the room trie    *)
(* (search_room / create_room), the per-room member array                  *)
(* (insert_into_rs_array / remove_user) and the fan-out (broadcast_msg).   *)
(*                                                                         *)
(* A thread's position is th[h].pc; one action is one stretch of           *)
(* client_serve between two blocking calls (read, write, close,            *)
(* pthread_mutex_lock). A critical section that contains no blocking call  *)
(* is taken in one step (lock, body, unlock); a section that can return    *)
(* with the mutex still held leaves the mutex owned by the thread. A step  *)
(* that touches only the thread's own variables is taken together with the *)
(* step that follows it, a mutex acquisition together with the first step  *)
(* under the mutex and a release together with the last one; a thread that *)
(* waits for a mutex stays at the pc of the acquisition.                   *)
(***************************************************************************)
EXTENDS Integers, Sequences, FiniteSets, TLC

\* ------------------------------------------------------------------ bounds
MaxConns == 3   \* connections the listener accepts in one run
MaxFd    == 2   \* descriptor numbers the process can hand out
MaxLines == 1   \* payload lines the connections deliver in one run
MaxFaults == 1  \* upsets in one run: a peer that goes away while it is
                \* written to, a failed malloc, a word outside an array that
                \* happens to equal the descriptor it is compared with

\* ------------------------------------------------------- program constants
TRIE_MAX_CHILD == 128
NULL == 0

Handlers == 1..MaxConns     \* a thread and the connection it serves
FDs      == 1..MaxFd
Rooms    == 1..MaxConns     \* chat_room_t objects, in order of allocation

\* Room names a JOIN can carry: byte strings; 225 is a byte above 127.
RoomNames == {<<97>>, <<98>>, <<225>>}

\* The value a function yields when control runs off its end without a
\* return statement (broadcast_msg on success): not defined by the language,
\* whatever the build leaves in the return register.
FallOffReturns == {0, -1}

VARIABLES
    falloff,      \* what the build leaves in the return register when
                  \* broadcast_msg runs off its end
    nconn,        \* connections accepted so far
    fdtab,        \* descriptor table: fd -> connection it refers to, 0 = closed
    peerOpen,     \* connection c exists and its remote end has not closed
    th,           \* thread h's variables in client_serve (see T0)
    trie,         \* trie node (path from trie_root) -> its room pointer
    trie_lock,    \* owner of trie_lock, 0 = free
    nrooms,       \* chat_room_t objects allocated so far
    user_fds,     \* room -> user_fds->data[0 .. size-1]
    num_people,   \* room -> num_people
    lock,         \* room -> owner of room->lock, 0 = free
    wrote,        \* connection c -> the messages written to its socket so
                  \* far, kept as long as a descriptor refers to the socket
    nlines,       \* payload lines delivered so far
    faults,       \* upsets so far
    crashed       \* the process has died on an invalid memory access

\* The bytes of one connection (specification ByteSpec): what read_wrapper,
\* validate_join, strtok and snprintf make of the stream a client sends.
VARIABLES
    given,        \* the bytes the client sends in all
    stream,       \* the bytes it has yet to send
    bpc,          \* where client_serve is: read, strtok, closed, crashed
    first_frame,  \* new_request
    in_buff,      \* the bytes read into in_buff in this call of read_wrapper
    packet_start, \* the string strtok has yet to scan
    user_name,    \* user_info->user_name
    sent,         \* the strings handed to broadcast_msg so far
    reply         \* the bytes client_error has written to the client

bytevars == <<given, stream, bpc, first_frame, in_buff, packet_start,
              user_name, sent, reply>>

\* One member array on its own (specification ListSpec): insert_into_rs_array
\* and the removal of remove_user applied to a drawn array and descriptor.
VARIABLES
    rs,           \* the rs_array_t: data (cap slots), size, cap
    people,       \* room->num_people
    lpc,          \* what comes next: add, remove, or how the removal ended
    user_fd,      \* the descriptor that is added and removed
    prior,        \* the entries of the array before the add
    lret          \* what insert_into_rs_array returned

listvars == <<rs, people, lpc, user_fd, prior, lret>>

\* The trie of src/utils.c on its own (specification TrieSpec): delete_room
\* applied to a trie that create_room built, and search_room afterwards.
VARIABLES
    heap,         \* the trie nodes ever allocated, by the path that leads to them
    made,         \* the rooms created: name -> room
    doomed,       \* the name of the room handed to delete_room
    occupants,    \* that room's num_people
    dpc,          \* build, delete, deleted or refused
    sought,       \* the name handed to search_room, if that was the last call
    got           \* what the last call returned

dirvars == <<heap, made, doomed, occupants, dpc, sought, got>>

\* The variables of the specifications that apply single functions.
purevars == <<listvars, dirvars>>

roomvars == <<falloff, nconn, fdtab, peerOpen, th, trie, trie_lock, nrooms,
              user_fds, num_people, lock, wrote, nlines, faults, crashed>>

vars == <<roomvars, bytevars, purevars>>

\* ---------------------------------------------------------------- messages
\* A message is what is written to a socket, together with the room whose
\* member array it is sent through (the two arguments of broadcast_msg);
\* via = 0 for what client_error writes.
NoMsg == [k |-> "none", from |-> 0, n |-> 0, via |-> 0]
\* "<nick> has joined\n"
JoinMsg(h, r) == [k |-> "joined", from |-> h, n |-> 0, via |-> r]
\* "<nick> has left\n"
LeftMsg(h, r) == [k |-> "left", from |-> h, n |-> 0, via |-> r]
\* "<nick>: <line>\n", the i-th line of h
LineMsg(h, i, r) == [k |-> "line", from |-> h, n |-> i, via |-> r]
\* error_buff
ErrorMsg(h) == [k |-> "ERROR", from |-> h, n |-> 0, via |-> 0]

\* ----------------------------------------------------------------- threads
\* The variables of one client_serve thread, before it is created.
T0 == [pc          |-> "idle",
       clientfd    |-> 0,       \* *clientfd
       new_request |-> TRUE,
       user_room   |-> <<>>,    \* user_info->room_name
       room        |-> NULL,    \* the local room pointer
       pend        |-> 0,       \* lines of the packet strtok has yet to yield
       lineno      |-> 0,       \* payload lines taken from the descriptor
       out_buff    |-> NoMsg,   \* the message being broadcast
       bctx        |-> "none",  \* the running broadcast_msg call: join, line, left
       bi          |-> 0,       \* broadcast_msg's loop index i (1-based)
       after       |-> "exit",  \* what follows client_error: exit or remove
       leaving     |-> FALSE]   \* remove_user was called from the leave path

\* client_serve has returned: its frame is gone.
Returned(t) == [T0 EXCEPT !.pc = "done"]

\* A thread that, instead of leaving, starts over at the top of client_serve
\* as if no JOIN had been read.
Leaving_Retry(t, p, x, l) ==
    [T0 EXCEPT !.pc = "read", !.clientfd = t.clientfd]

\* Thread t on its way out of client_serve, at position p: from here on it
\* reads its descriptor and its room pointer only, so the rest of its frame
\* is not carried along. x is what follows client_error, l whether the leave
\* announcement follows remove_user.
Leaving(t, p, x, l) ==
    [T0 EXCEPT !.pc = p,
               !.clientfd = t.clientfd,
               !.room = t.room,
               !.after = x,
               !.leaving = l]

\* -------------------------------------------------------------------- trie
toascii(c) == c % TRIE_MAX_CHILD

RECURSIVE Walk(_, _, _, _)
\* search_room's loop: follow child[toascii(room_name[i])] from node p.
Walk(t, p, name, i) ==
    IF i > Len(name) THEN t[p]
    ELSE LET q == Append(p, toascii(name[i]))
         IN  IF q \notin DOMAIN t THEN NULL ELSE Walk(t, q, name, i + 1)

search_room(t, name) == Walk(t, <<>>, name, 1)

\* The terminal node create_room reaches for a name.
TermNode(name) == [i \in 1..Len(name) |-> toascii(name[i])]

\* create_room: make the missing nodes on the path, then store the pointer
\* malloc returned (r, or NULL when malloc fails) in the terminal node.
create_room(t, name, r) ==
    LET path  == TermNode(name)
        nodes == {SubSeq(path, 1, i) : i \in 0..Len(path)}
    IN  [p \in DOMAIN t \cup nodes |->
            IF p = path THEN r
            ELSE IF p \in DOMAIN t THEN t[p] ELSE NULL]

\* ------------------------------------------------------------ member array
\* insert_into_rs_array's duplicate test, data[size-1] == user_fd. With
\* size = 0 it reads data[-1], the word in front of the array: any outcome,
\* and the outcome TRUE (that word equals the descriptor) counts as an upset.
InsertRejects(data, fd) ==
    IF Len(data) = 0
    THEN {FALSE} \cup {TRUE : x \in {1 : y \in {faults} \cap 0..(MaxFaults - 1)}}
    ELSE {data[Len(data)] = fd}

\* remove_user's search loop: first index holding fd, 0 when absent.
FirstIndex(data, n, fd) ==
    LET hits == {i \in 1..n : data[i] = fd}
    IN  IF hits = {} THEN 0 ELSE CHOOSE i \in hits : \A j \in hits : i <= j

\* A removal that drops the first slot, whichever slot holds the descriptor.
RemoveAt_Head(data, i) == [j \in 1..(Len(data) - 1) |-> data[j + 1]]

\* remove_user's shift of the tail over index i.
RemoveAt(data, i) ==
    [j \in 1..(Len(data) - 1) |-> IF j < i THEN data[j] ELSE data[j + 1]]

\* ------------------------------------------------------------ system calls
\* write(fd, ...): fails on a closed descriptor (EBADF) and may fail when
\* the peer of the connection behind fd has gone away (EPIPE, ECONNRESET).
\* A peer that is found gone for the first time is an upset.
WriteOutcomes(fd) ==
    IF fdtab[fd] = 0 THEN {FALSE}
    ELSE IF ~peerOpen[fdtab[fd]] THEN {TRUE, FALSE}
    ELSE IF faults < MaxFaults THEN {TRUE, FALSE}
    ELSE {TRUE}

\* The write to fd has come out ok or not: is that a peer found gone?
FoundGone(fd, ok) == ~ok /\ fdtab[fd] # 0 /\ peerOpen[fdtab[fd]]

\* write(fd, m) with outcome ok: a successful write is logged, a peer found
\* gone is remembered.
Write(fd, m, ok) ==
    /\ wrote' = IF ok THEN [wrote EXCEPT ![fdtab[fd]] = Append(@, m)] ELSE wrote
    /\ peerOpen' = IF FoundGone(fd, ok)
                   THEN [peerOpen EXCEPT ![fdtab[fd]] = FALSE]
                   ELSE peerOpen

\* close(fd): the descriptor is free again and the connection it referred
\* to is gone.
Close(fd) ==
    /\ fdtab' = [fdtab EXCEPT ![fd] = 0]
    /\ peerOpen' = [c \in Handlers |-> peerOpen[c] /\ c # fdtab[fd]]
    /\ wrote' = [c \in Handlers |-> IF c = fdtab[fd] THEN <<>> ELSE wrote[c]]

FreeFds == {f \in FDs : fdtab[f] = 0}
LowestFree == CHOOSE f \in FreeFds : \A g \in FreeFds : f <= g

\* -------------------------------------------------------------------- Init
\* The byte-level variables where Spec leaves them.
ByteIdle ==
    /\ given = <<>>
    /\ stream = <<>>
    /\ bpc = "closed"
    /\ first_frame = TRUE
    /\ in_buff = <<>>
    /\ packet_start = <<>>
    /\ user_name = <<>>
    /\ sent = <<>>
    /\ reply = <<>>

\* The variables of ListSpec where the other specifications leave them.
ListIdle ==
    /\ rs = [data |-> <<>>, size |-> 0, cap |-> 0]
    /\ people = 0
    /\ lpc = "idle"
    /\ user_fd = 0
    /\ prior = <<>>
    /\ lret = 0

\* The variables of TrieSpec where the other specifications leave them.
DirIdle ==
    /\ heap = <<>>
    /\ made = <<>>
    /\ doomed = <<>>
    /\ occupants = 0
    /\ dpc = "idle"
    /\ sought = <<>>
    /\ got = 0

PureIdle == ListIdle /\ DirIdle

\* The state main leaves behind when it enters the accept loop.
RoomInit ==
    /\ nconn = 0
    /\ fdtab = [f \in FDs |-> 0]
    /\ peerOpen = [h \in Handlers |-> FALSE]
    /\ th = [h \in Handlers |-> T0]
    /\ trie = (<<>> :> NULL)
    /\ trie_lock = 0
    /\ nrooms = 0
    /\ user_fds = [r \in Rooms |-> <<>>]
    /\ num_people = [r \in Rooms |-> 0]
    /\ lock = [r \in Rooms |-> 0]
    /\ wrote = [h \in Handlers |-> <<>>]
    /\ nlines = 0
    /\ faults = 0
    /\ crashed = FALSE

Init ==
    /\ falloff \in FallOffReturns
    /\ RoomInit
    /\ ByteIdle
    /\ PureIdle

\* ---------------------------------------------------------------- listener
\* main's loop: accept returns the lowest free descriptor and a thread is
\* created for it.
Accept ==
    /\ ~crashed
    /\ nconn < MaxConns
    /\ FreeFds # {}
    /\ LET h == nconn + 1
           fd == LowestFree
       IN  /\ nconn' = h
           /\ fdtab' = [fdtab EXCEPT ![fd] = h]
           /\ peerOpen' = [peerOpen EXCEPT ![h] = TRUE]
           /\ th' = [th EXCEPT ![h] = [@ EXCEPT !.pc = "read", !.clientfd = fd]]
    /\ UNCHANGED <<bytevars, purevars, falloff, trie, trie_lock, nrooms, user_fds, num_people, lock,
                   wrote, nlines, faults, crashed>>

\* ------------------------------------------------------------ client_serve
\* The descriptor of thread h refers to an open connection whose peer still
\* sends.
CanRead(h) ==
    /\ fdtab[th[h].clientfd] # 0
    /\ peerOpen[fdtab[th[h].clientfd]]

\* read_wrapper with init = true returns past a valid JOIN frame (the JOIN
\* names a room, and k payload lines arrived in the same packet); then the
\* first critical section of the join path: lock trie_lock, search_room,
\* unlock.
ReadJoin(h) ==
    /\ ~crashed
    /\ th[h].pc = "read"
    /\ th[h].new_request
    /\ CanRead(h)
    /\ trie_lock = 0
    /\ \E name \in RoomNames, k \in 0..(MaxLines - nlines) :
          LET r == search_room(trie, name)
          IN  /\ th' = [th EXCEPT ![h] = [@ EXCEPT
                            !.user_room = name,
                            !.pend = k,
                            !.room = r,
                            !.pc = IF r = NULL THEN "create" ELSE "lockroom"]]
              /\ nlines' = nlines + k
    /\ UNCHANGED <<bytevars, purevars, falloff, nconn, fdtab, peerOpen, trie, trie_lock, nrooms, user_fds,
                   num_people, lock, wrote, faults, crashed>>

\* read_wrapper with init = false returns a packet of k >= 1 lines; strtok
\* yields the first one and it is formatted into out_buff.
ReadLines(h) ==
    /\ ~crashed
    /\ th[h].pc = "read"
    /\ ~th[h].new_request
    /\ CanRead(h)
    /\ \E k \in 1..(MaxLines - nlines) :
          /\ th' = [th EXCEPT ![h] = [@ EXCEPT
                        !.pend = k - 1,
                        !.lineno = @ + 1,
                        !.out_buff = LineMsg(h, th[h].lineno + 1,
                                             th[h].room),
                        !.bctx = "line",
                        !.pc = "bcast_lock"]]
          /\ nlines' = nlines + k
    /\ UNCHANGED <<bytevars, purevars, falloff, nconn, fdtab, peerOpen, trie, trie_lock, nrooms, user_fds,
                   num_people, lock, wrote, faults, crashed>>

\* read_wrapper returns NULL (read failed or returned 0, the JOIN did not
\* validate, or the buffer filled up without a newline) and client_error
\* writes error_buff; when the write fails client_error returns without
\* closing. Before the JOIN the thread then returns; after it, remove_user
\* and the leave broadcast follow.
ReadNull(h) ==
    /\ ~crashed
    /\ th[h].pc = "read"
    /\ \E ok \in WriteOutcomes(th[h].clientfd) :
          /\ Write(th[h].clientfd, ErrorMsg(h), ok)
          /\ faults' = IF FoundGone(th[h].clientfd, ok) THEN faults + 1 ELSE faults
          /\ th' = [th EXCEPT ![h] =
                       IF ok
                       THEN Leaving(@, "cerr_close",
                                    IF th[h].new_request THEN "exit" ELSE "remove",
                                    ~th[h].new_request)
                       ELSE IF th[h].new_request THEN Returned(@)
                       ELSE Leaving(@, "rm_lock", "remove", TRUE)]
    /\ UNCHANGED <<bytevars, purevars, falloff, nconn, fdtab, trie, trie_lock, nrooms, user_fds, num_people,
                   lock, nlines, crashed>>

\* client_error called after a failed insert or a failed broadcast: its write
\* of error_buff.
ClientErrorWrite(h) ==
    /\ ~crashed
    /\ th[h].pc = "cerr_write"
    /\ \E ok \in WriteOutcomes(th[h].clientfd) :
          /\ Write(th[h].clientfd, ErrorMsg(h), ok)
          /\ faults' = IF FoundGone(th[h].clientfd, ok) THEN faults + 1 ELSE faults
          /\ th' = [th EXCEPT ![h].pc = IF ok THEN "cerr_close" ELSE "rm_lock"]
    /\ UNCHANGED <<bytevars, purevars, falloff, nconn, fdtab, trie, trie_lock, nrooms, user_fds, num_people,
                   lock, nlines, crashed>>

\* client_error's close(fd).
ClientErrorClose(h) ==
    /\ ~crashed
    /\ th[h].pc = "cerr_close"
    /\ Close(th[h].clientfd)
    /\ th' = [th EXCEPT ![h] =
                 IF th[h].after = "exit" THEN Returned(@)
                 ELSE [@ EXCEPT !.pc = "rm_lock"]]
    /\ UNCHANGED <<bytevars, purevars, falloff, nconn, trie, trie_lock, nrooms, user_fds, num_people, lock,
                   nlines, faults, crashed>>

\* The second critical section, entered when the search found nothing: lock
\* trie_lock, create_room, unlock.
Create(h) ==
    /\ ~crashed
    /\ th[h].pc = "create"
    /\ trie_lock = 0
    /\ LET r == nrooms + 1
       IN  /\ nrooms' = r
           /\ trie' = create_room(trie, th[h].user_room, r)
           /\ user_fds' = [user_fds EXCEPT ![r] = <<>>]
           /\ num_people' = [num_people EXCEPT ![r] = 0]
           /\ lock' = [lock EXCEPT ![r] = 0]
           /\ th' = [th EXCEPT ![h] = [@ EXCEPT !.room = r, !.pc = "lockroom"]]
    /\ UNCHANGED <<bytevars, purevars, falloff, nconn, fdtab, peerOpen, trie_lock, wrote, nlines, faults,
                   crashed>>

\* create_room's malloc of the room returns NULL: the terminal node's pointer
\* is overwritten with NULL, create_room returns NULL with trie_lock held and
\* client_serve calls remove_user(user_info, NULL), which locks a mutex at
\* address NULL.
CreateFails(h) ==
    /\ ~crashed
    /\ th[h].pc = "create"
    /\ trie_lock = 0
    /\ faults < MaxFaults
    /\ faults' = faults + 1
    /\ trie' = create_room(trie, th[h].user_room, NULL)
    /\ trie_lock' = h
    /\ crashed' = TRUE
    /\ UNCHANGED <<bytevars, purevars, falloff, nconn, fdtab, peerOpen, th, nrooms, user_fds, num_people,
                   lock, wrote, nlines>>

\* The room critical section of the join path: lock room->lock,
\* insert_into_rs_array, num_people++, unlock. When the insert is rejected
\* the thread leaves the section through client_error with the lock held.
JoinAdd(h) ==
    /\ ~crashed
    /\ th[h].pc = "lockroom"
    /\ lock[th[h].room] = 0
    /\ LET r == th[h].room
       IN  \E rejected \in InsertRejects(user_fds[r], th[h].clientfd) :
              IF rejected
              THEN /\ lock' = [lock EXCEPT ![r] = h]
                   /\ faults' = IF Len(user_fds[r]) = 0 THEN faults + 1 ELSE faults
                   /\ th' = [th EXCEPT ![h] =
                                Leaving(@, "cerr_write", "remove", FALSE)]
                   /\ UNCHANGED <<user_fds, num_people>>
              ELSE /\ user_fds' = [user_fds EXCEPT ![r] = Append(@, th[h].clientfd)]
                   /\ num_people' = [num_people EXCEPT ![r] = @ + 1]
                   /\ th' = [th EXCEPT ![h] = [@ EXCEPT !.out_buff = JoinMsg(h, r),
                                                        !.bctx = "join",
                                                        !.pc = "bcast_lock"]]
                   /\ UNCHANGED <<lock, faults>>
    /\ UNCHANGED <<bytevars, purevars, falloff, nconn, fdtab, peerOpen, trie, trie_lock, nrooms,
                   wrote, nlines, crashed>>

\* --------------------------------------------------------------- broadcast
\* Thread t after broadcast_msg returned v to client_serve. Leave path:
\* return. Join and line paths: on v < 0 client_error, then remove_user, then
\* return; otherwise new_request = false and strtok yields the next line of
\* the packet, or the thread goes back to read_wrapper.
BroadcastReturn(h, t, v) ==
    IF t.bctx = "left" THEN Returned(t)
    ELSE IF v < 0
    THEN Leaving(t, "cerr_write", "remove", FALSE)
    ELSE IF t.pend > 0
    THEN [t EXCEPT !.bi = 0,
                   !.new_request = FALSE,
                   !.pend = @ - 1,
                   !.lineno = @ + 1,
                   !.out_buff = LineMsg(h, t.lineno + 1, t.room),
                   !.bctx = "line",
                   !.pc = "bcast_lock"]
    ELSE [t EXCEPT !.bi = 0,
                   !.new_request = FALSE,
                   !.out_buff = NoMsg,
                   !.bctx = "none",
                   !.pc = "read"]

\* broadcast_msg's loop from index i on, the mutex held: write out_buff to
\* data[i]. A failed write returns -errno at once, the mutex still locked.
\* After the last member the mutex is unlocked and control runs off the end
\* of the function.
BroadcastStep(h, i) ==
    LET r == th[h].room
    IN  IF i > num_people[r]
        THEN /\ lock' = [lock EXCEPT ![r] = 0]
             /\ UNCHANGED <<wrote, peerOpen, faults>>
             /\ th' = [th EXCEPT ![h] = BroadcastReturn(h, @, falloff)]
        ELSE \E ok \in WriteOutcomes(user_fds[r][i]) :
                /\ Write(user_fds[r][i], th[h].out_buff, ok)
                /\ IF ~ok
                   THEN /\ lock' = [lock EXCEPT ![r] = h]
                        /\ faults' = IF FoundGone(user_fds[r][i], ok)
                                      THEN faults + 1 ELSE faults
                        /\ th' = [th EXCEPT ![h] = BroadcastReturn(h, @, -1)]
                   ELSE IF i < num_people[r]
                   THEN /\ lock' = [lock EXCEPT ![r] = h]
                        /\ faults' = faults
                        /\ th' = [th EXCEPT ![h] = [@ EXCEPT !.bi = i + 1,
                                                             !.pc = "bcast_write"]]
                   ELSE /\ lock' = [lock EXCEPT ![r] = 0]
                        /\ faults' = faults
                        /\ th' = [th EXCEPT ![h] =
                                     BroadcastReturn(h, @, falloff)]

\* broadcast_msg without its pthread_mutex_lock: the loop starts whether or
\* not another thread is inside it.
BroadcastLock_NoMutex(h) ==
    /\ ~crashed
    /\ th[h].pc = "bcast_lock"
    /\ BroadcastStep(h, 1)
    /\ UNCHANGED <<bytevars, purevars, falloff, nconn, fdtab, trie, trie_lock, nrooms, user_fds,
                   num_people, nlines, crashed>>

\* broadcast_msg's pthread_mutex_lock(&room->lock) and the first iteration.
BroadcastLock(h) ==
    /\ ~crashed
    /\ th[h].pc = "bcast_lock"
    /\ lock[th[h].room] = 0
    /\ BroadcastStep(h, 1)
    /\ UNCHANGED <<bytevars, purevars, falloff, nconn, fdtab, trie, trie_lock, nrooms, user_fds,
                   num_people, nlines, crashed>>

\* A later iteration of broadcast_msg's loop.
BroadcastWrite(h) ==
    /\ ~crashed
    /\ th[h].pc = "bcast_write"
    /\ BroadcastStep(h, th[h].bi)
    /\ UNCHANGED <<bytevars, purevars, falloff, nconn, fdtab, trie, trie_lock, nrooms, user_fds,
                   num_people, nlines, crashed>>

\* ------------------------------------------------------------- remove_user
\* Thread t after remove_user returned to client_serve: the leave path goes
\* on to broadcast the leave announcement, the error paths return.
RemoveReturn(h, t) ==
    IF t.leaving
    THEN [t EXCEPT !.out_buff = LeftMsg(h, t.room), !.bctx = "left", !.pc = "bcast_lock"]
    ELSE Returned(t)

\* remove_user left out: client_serve goes from client_error straight on to
\* what follows remove_user, the member array untouched and the descriptor
\* not closed a second time.
RemoveUser_Skipped(h) ==
    /\ ~crashed
    /\ th[h].pc = "rm_lock"
    /\ lock[th[h].room] = 0
    /\ th' = [th EXCEPT ![h] = RemoveReturn(h, @)]
    /\ UNCHANGED <<bytevars, purevars, falloff, nconn, fdtab, peerOpen, trie, trie_lock, nrooms,
                   user_fds, num_people, lock, wrote, nlines, faults, crashed>>

\* remove_user without pthread_mutex_lock: the search and the shift are done
\* whoever holds the room's mutex.
RemoveUser_NoMutex(h) ==
    /\ ~crashed
    /\ th[h].pc = "rm_lock"
    /\ LET r == th[h].room
           i == FirstIndex(user_fds[r], num_people[r], th[h].clientfd)
       IN  IF i # 0
           THEN /\ user_fds' = [user_fds EXCEPT ![r] = RemoveAt(@, i)]
                /\ num_people' = [num_people EXCEPT ![r] = @ - 1]
                /\ th' = [th EXCEPT ![h].pc = "rm_close"]
           ELSE /\ th' = [th EXCEPT ![h] = RemoveReturn(h, @)]
                /\ UNCHANGED <<user_fds, num_people>>
    /\ UNCHANGED <<bytevars, purevars, falloff, nconn, fdtab, peerOpen, trie,
                   trie_lock, nrooms, lock, wrote, nlines, faults, crashed>>

\* remove_user's critical section: lock, find connfd, shift the tail,
\* size-- and num_people--, unlock. When connfd is not in the array it
\* returns -ENOENT with the mutex locked.
RemoveUser(h) ==
    /\ ~crashed
    /\ th[h].pc = "rm_lock"
    /\ lock[th[h].room] = 0
    /\ LET r == th[h].room
           i == FirstIndex(user_fds[r], num_people[r], th[h].clientfd)
       IN  IF i # 0
           THEN /\ user_fds' = [user_fds EXCEPT ![r] = RemoveAt(@, i)]
                /\ num_people' = [num_people EXCEPT ![r] = @ - 1]
                /\ th' = [th EXCEPT ![h].pc = "rm_close"]
                /\ lock' = lock
           ELSE /\ lock' = [lock EXCEPT ![r] = h]
                /\ th' = [th EXCEPT ![h] = RemoveReturn(h, @)]
                /\ UNCHANGED <<user_fds, num_people>>
    /\ UNCHANGED <<bytevars, purevars, falloff, nconn, fdtab, peerOpen, trie, trie_lock, nrooms, wrote,
                   nlines, faults, crashed>>

\* remove_user's close(user_info->connfd) and the return to client_serve.
RemoveClose(h) ==
    /\ ~crashed
    /\ th[h].pc = "rm_close"
    /\ Close(th[h].clientfd)
    /\ th' = [th EXCEPT ![h] = RemoveReturn(h, @)]
    /\ UNCHANGED <<bytevars, purevars, falloff, nconn, trie, trie_lock, nrooms, user_fds, num_people, lock,
                   nlines, faults, crashed>>

\* ------------------------------------------------------------------- Next
Next ==
    \/ Accept
    \/ \E h \in Handlers : ReadJoin(h)
    \/ \E h \in Handlers : ReadLines(h)
    \/ \E h \in Handlers : ReadNull(h)
    \/ \E h \in Handlers : ClientErrorWrite(h)
    \/ \E h \in Handlers : ClientErrorClose(h)
    \/ \E h \in Handlers : Create(h)
    \/ \E h \in Handlers : CreateFails(h)
    \/ \E h \in Handlers : JoinAdd(h)
    \/ \E h \in Handlers : BroadcastLock(h)
    \/ \E h \in Handlers : BroadcastWrite(h)
    \/ \E h \in Handlers : RemoveUser(h)
    \/ \E h \in Handlers : RemoveClose(h)

Spec == Init /\ [][Next]_vars

\* ============================================== the bytes of one connection
\* ByteSpec follows one connection through client_serve byte by byte: the
\* client sends a stream, every read returns some of it, and read_wrapper,
\* validate_join, strtok and snprintf work on what has arrived.  The room is
\* left out: every join succeeds and every broadcast returns 0, so that sent
\* holds exactly the strings client_serve hands to broadcast_msg.

\* ------------------------------------------------------------------ bounds
\* in_buff and out_buff hold MAX_BUFF_LEN bytes: 20001 in the source, scaled.
MAX_BUFF_LEN == 32
MaxPayload == 4         \* longest payload drawn byte by byte

\* ------------------------------------------------------- program constants
MAX_USERNAME_LEN == 21
MAX_ROOMNAME_LEN == 21
MSG_DELIMETER == 10     \* '\n'
SP == 32                \* ' '
error_buff == <<69, 82, 82, 79, 82, 10>>                          \* "ERROR\n"
join_buff == <<104, 97, 115, 32, 106, 111, 105, 110, 101, 100, 10>>
                                                                   \* "has joined\n"
left_buff == <<104, 97, 115, 32, 108, 101, 102, 116, 10>>         \* "has left\n"
JOIN == <<74, 79, 73, 78>>                                        \* "JOIN"

\* ------------------------------------------------------------------ strings
\* A C string is the sequence of its bytes before the terminating NUL.
Take(s, n) == SubSeq(s, 1, IF n < Len(s) THEN n ELSE Len(s))
Drop(s, n) == SubSeq(s, n + 1, Len(s))

\* The bytes isspace holds of in the C locale.
WhiteSpace == {9, 10, 11, 12, 13, 32}

\* strchr: the index of the first c in s, 0 (NULL) when there is none.
strchr(s, c) ==
    IF \E i \in 1..Len(s) : s[i] = c
    THEN CHOOSE i \in 1..Len(s) : s[i] = c /\ \A j \in 1..(i - 1) : s[j] # c
    ELSE 0

\* strspn / strcspn: the length of the longest prefix of s whose bytes all
\* are in accept (none is in reject).
strspn(s, accept) ==
    IF \E i \in 1..Len(s) : s[i] \notin accept
    THEN (CHOOSE i \in 1..Len(s) :
              s[i] \notin accept /\ \A j \in 1..(i - 1) : s[j] \in accept) - 1
    ELSE Len(s)

strcspn(s, reject) ==
    IF \E i \in 1..Len(s) : s[i] \in reject
    THEN (CHOOSE i \in 1..Len(s) :
              s[i] \in reject /\ \A j \in 1..(i - 1) : s[j] \notin reject) - 1
    ELSE Len(s)

strnlen(s, maxlen) == IF Len(s) < maxlen THEN Len(s) ELSE maxlen

\* snprintf(out_buff, MAX_BUFF_LEN, ...): the formatted string, cut to the
\* MAX_BUFF_LEN - 1 bytes that fit before the NUL.
snprintf(formatted) == Take(formatted, MAX_BUFF_LEN - 1)

\* sscanf(buff, "JOIN %s %s", room_name, user_name): the literal JOIN, then
\* two conversions, each skipping white space (newlines included) and taking
\* the bytes up to the next white space or the end of the string.
sscanf(buff) ==
    IF Take(buff, Len(JOIN)) # JOIN
    THEN [ret |-> 0, room_name |-> <<>>, user_name |-> <<>>]
    ELSE LET a  == Drop(buff, Len(JOIN))
             a1 == Drop(a, strspn(a, WhiteSpace))
             rn == Take(a1, strcspn(a1, WhiteSpace))
             b  == Drop(a1, Len(rn))
             b1 == Drop(b, strspn(b, WhiteSpace))
             un == Take(b1, strcspn(b1, WhiteSpace))
         IN  [ret |-> IF rn = <<>> THEN 0 ELSE IF un = <<>> THEN 1 ELSE 2,
              room_name |-> rn, user_name |-> un]

\* validate_join: the set of its possible results.  A token of 21 bytes or
\* more overruns the 21-byte array sscanf stores it in: the call may kill the
\* process, or go on with an array that holds no NUL, which strnlen measures
\* as 21.
validate_join(buff) ==
    LET r == sscanf(buff)
        overrun == \/ Len(r.room_name) >= MAX_ROOMNAME_LEN
                   \/ Len(r.user_name) >= MAX_USERNAME_LEN
        user_name_len == strnlen(r.user_name, MAX_USERNAME_LEN)
        room_name_len == strnlen(r.room_name, MAX_ROOMNAME_LEN)
        returns ==
            IF r.ret # 2
            THEN [killed |-> FALSE, ret |-> -1, room_name |-> <<>>,
                  user_name |-> <<>>]
            ELSE IF \/ user_name_len = MAX_USERNAME_LEN
                    \/ room_name_len = MAX_USERNAME_LEN
                 THEN [killed |-> FALSE, ret |-> -1, room_name |-> <<>>,
                       user_name |-> <<>>]
                 ELSE [killed |-> FALSE, ret |-> 0, room_name |-> r.room_name,
                       user_name |-> r.user_name]
    IN  IF overrun
        THEN {returns, [killed |-> TRUE, ret |-> 0, room_name |-> <<>>,
                        user_name |-> <<>>]}
        ELSE {returns}

\* ------------------------------------------------------------- the client
\* The bytes a payload is drawn from: newline, x and y.
PayloadBytes == {MSG_DELIMETER, 120, 121}

Payloads == UNION {[1..n -> PayloadBytes] : n \in 0..MaxPayload}

\* n bytes x.
Xs(n) == [i \in 1..n |-> 120]

JoinAB == <<74, 79, 73, 78, 32, 97, 32, 98, 10>>                 \* "JOIN a b\n"

\* First frames, well formed and not.
FirstFrames ==
    { JoinAB,
      <<106, 111, 105, 110, 32, 97, 32, 98, 10>>,           \* "join a b\n"
      <<72, 69, 76, 76, 79, 32, 97, 32, 98, 10>>,      \* "HELLO a b\n"
      <<74, 79, 73, 78, 32, 97, 10>>,                    \* "JOIN a\n"
      <<74, 79, 73, 78, 32, 97, 32, 98, 32, 99, 10>>,       \* "JOIN a b c\n"
      <<74, 79, 73, 78, 97, 32, 98, 10>>,                \* "JOINa b\n"
      <<74, 79, 73, 78, 9, 97, 32, 32, 98, 10>>,            \* "JOIN\ta  b\n"
      <<MSG_DELIMETER>>,                                 \* "\n"
      JOIN \o <<SP, 97, SP>> \o Xs(MAX_USERNAME_LEN - 1) \o <<MSG_DELIMETER>>,
      JOIN \o <<SP, 97, SP>> \o Xs(MAX_USERNAME_LEN) \o <<MSG_DELIMETER>>,
      JOIN \o <<SP>> \o Xs(MAX_ROOMNAME_LEN) \o <<SP, 98, MSG_DELIMETER>> }

\* Payloads with a frame that fills in_buff or is longer than it.
LongPayloads ==
    { Xs(MAX_BUFF_LEN - 1) \o <<MSG_DELIMETER>>,
      Xs(MAX_BUFF_LEN + 1),
      Xs(MAX_BUFF_LEN + 1) \o <<MSG_DELIMETER>>,
      <<121, MSG_DELIMETER>> \o Xs(MAX_BUFF_LEN) \o <<MSG_DELIMETER>> }

\* The streams a client may send.
Streams ==
    {JoinAB \o p : p \in Payloads \cup LongPayloads}
        \cup {f \o p : f \in FirstFrames, p \in {<<>>, <<120, MSG_DELIMETER>>}}
        \cup {<<>>, <<74, 79>>}

\* What the string functions may find behind a full in_buff, which holds no
\* NUL: nothing, or bytes that reach up to a newline.
Beyond == {<<>>, <<63, MSG_DELIMETER>>}

\* -------------------------------------------------------------------- Init
ByteInit ==
    /\ falloff = 0
    /\ RoomInit
    /\ PureIdle
    /\ given \in Streams
    /\ stream = given
    /\ bpc = "read"
    /\ first_frame = TRUE
    /\ in_buff = <<>>
    /\ packet_start = <<>>
    /\ user_name = <<>>
    /\ sent = <<>>
    /\ reply = <<>>

\* ------------------------------------------------------------ read_wrapper
\* in_buff after a read that returns the next n bytes of the stream.
Arrived(n) == in_buff \o Take(stream, n)

\* The C string that starts at in_buff.
CString(buff, beyond) ==
    IF Len(buff) = MAX_BUFF_LEN THEN buff \o beyond ELSE buff

\* The reads that can happen: n bytes, 1 <= n <= remainder, and what lies
\* beyond in_buff if the read fills it.
CanReturn(n, beyond) ==
    /\ bpc = "read"
    /\ n \in 1..Len(stream)
    /\ n <= MAX_BUFF_LEN - Len(in_buff)
    /\ beyond \in Beyond
    /\ Len(Arrived(n)) < MAX_BUFF_LEN => beyond = <<>>

\* client_serve when read_wrapper returns NULL: ERROR to the client and, once
\* joined, the leave announcement.
ReturnsNull ==
    /\ reply' = reply \o error_buff
    /\ sent' = IF first_frame
               THEN sent
               ELSE Append(sent, snprintf(user_name \o <<SP>> \o left_buff
                                            \o <<MSG_DELIMETER>>))
    /\ bpc' = "closed"
    /\ UNCHANGED <<first_frame, packet_start, user_name>>

\* A read leaves in_buff without a newline and with room: the loop reads on.
ByteReadMore(n) ==
    /\ CanReturn(n, <<>>)
    /\ Len(Arrived(n)) < MAX_BUFF_LEN
    /\ strchr(Arrived(n), MSG_DELIMETER) = 0
    /\ stream' = Drop(stream, n)
    /\ in_buff' = Arrived(n)
    /\ UNCHANGED <<roomvars, purevars, given, bpc, first_frame, packet_start, user_name,
                   sent, reply>>

\* A read fills in_buff and strchr finds no newline: remainder is 0.
ByteReadFull(n, beyond) ==
    /\ CanReturn(n, beyond)
    /\ Len(Arrived(n)) = MAX_BUFF_LEN
    /\ strchr(CString(Arrived(n), beyond), MSG_DELIMETER) = 0
    /\ stream' = Drop(stream, n)
    /\ in_buff' = Arrived(n)
    /\ ReturnsNull
    /\ UNCHANGED <<roomvars, purevars, given>>

\* read returns 0: the client has sent everything and closed.
ByteReadEOF ==
    /\ bpc = "read"
    /\ stream = <<>>
    /\ ReturnsNull
    /\ UNCHANGED <<roomvars, purevars, given, stream, in_buff>>

\* The first read after which strchr finds a newline, init being true:
\* validate_join, then the join and its announcement.
ByteReadJoin(n, beyond) ==
    LET str == CString(Arrived(n), beyond)
        pos == strchr(str, MSG_DELIMETER)
    IN  /\ CanReturn(n, beyond)
        /\ first_frame
        /\ pos # 0
        /\ stream' = Drop(stream, n)
        /\ in_buff' = Arrived(n)
        /\ \E v \in validate_join(str) :
              IF v.killed
              THEN /\ bpc' = "crashed"
                   /\ UNCHANGED <<first_frame, packet_start, user_name, sent,
                                  reply>>
              ELSE IF v.ret < 0
              THEN ReturnsNull
              ELSE /\ user_name' = v.user_name
                   /\ first_frame' = FALSE
                   /\ sent' = Append(sent,
                                  snprintf(v.user_name \o <<SP>> \o join_buff
                                             \o <<MSG_DELIMETER>>))
                   /\ packet_start' = Drop(str, pos)
                   /\ bpc' = "strtok"
                   /\ UNCHANGED reply
        /\ UNCHANGED <<roomvars, purevars, given>>

\* The same with init false: read_wrapper returns start_ptr.
ByteReadLines(n, beyond) ==
    LET str == CString(Arrived(n), beyond)
    IN  /\ CanReturn(n, beyond)
        /\ ~first_frame
        /\ strchr(str, MSG_DELIMETER) # 0
        /\ stream' = Drop(stream, n)
        /\ in_buff' = Arrived(n)
        /\ packet_start' = str
        /\ bpc' = "strtok"
        /\ UNCHANGED <<roomvars, purevars, given, first_frame, user_name, sent, reply>>

\* ------------------------------------------------------------------ strtok
\* The delimiters handed to strtok: "\n".
Delimiters == {MSG_DELIMETER}

\* strtok(packet_start, "\n"): the next token and what is left to scan.
strtok(s) ==
    LET s1 == Drop(s, strspn(s, Delimiters))
        tok == Take(s1, strcspn(s1, Delimiters))
    IN  [token |-> tok, rest |-> Drop(s1, Len(tok) + 1)]

\* strtok returns a token: it is broadcast as a line of the user's.
ByteStrtokLine ==
    LET t == strtok(packet_start)
    IN  /\ bpc = "strtok"
        /\ t.token # <<>>
        /\ sent' = Append(sent, snprintf(user_name \o <<58, SP>> \o t.token
                                           \o <<MSG_DELIMETER>>))
        /\ packet_start' = t.rest
        /\ UNCHANGED <<roomvars, purevars, given, stream, bpc, first_frame, in_buff,
                       user_name, reply>>

\* strtok returns NULL: the outer loop clears in_buff and reads again.
ByteStrtokNull ==
    /\ bpc = "strtok"
    /\ strtok(packet_start).token = <<>>
    /\ in_buff' = <<>>
    /\ packet_start' = <<>>
    /\ bpc' = "read"
    /\ UNCHANGED <<roomvars, purevars, given, stream, first_frame, user_name, sent, reply>>

\* -------------------------------------------------------------------- Next
ByteNext ==
    \/ \E n \in 1..MAX_BUFF_LEN : ByteReadMore(n)
    \/ \E n \in 1..MAX_BUFF_LEN, beyond \in Beyond : ByteReadFull(n, beyond)
    \/ ByteReadEOF
    \/ \E n \in 1..MAX_BUFF_LEN, beyond \in Beyond : ByteReadJoin(n, beyond)
    \/ \E n \in 1..MAX_BUFF_LEN, beyond \in Beyond : ByteReadLines(n, beyond)
    \/ ByteStrtokLine
    \/ ByteStrtokNull

ByteSpec == ByteInit /\ [][ByteNext]_vars

\* ===================================================== one member array
\* ListSpec draws a member array that does not hold a descriptor, adds the
\* descriptor with insert_into_rs_array as the join path does and removes it
\* as remove_user does.

\* ------------------------------------------------------------------ bounds
INIT_ARR_CAP == 2       \* 1000 in the source, scaled
MaxHandle == 3          \* descriptors 1 .. MaxHandle
MaxMembers == 4         \* longest array drawn

\* ------------------------------------------------------- program constants
EINVAL == 22
ENOMEM == 12
ENOENT == 2

\* The capacities an array of INIT_ARR_CAP slots reaches by doubling.
Caps == {INIT_ARR_CAP, 2 * INIT_ARR_CAP, 4 * INIT_ARR_CAP}

\* What a slot behind the last entry may hold: 0 or an old descriptor.
Slack == 0..MaxHandle

\* The entries of array a: its first size slots.
Entries(a) == SubSeq(a.data, 1, a.size)

\* -------------------------------------------------------------------- Init
ListInit ==
    /\ falloff = 0
    /\ RoomInit
    /\ ByteIdle
    /\ DirIdle
    /\ user_fd \in 1..MaxHandle
    /\ \E n \in 0..MaxMembers, c \in Caps, g \in Slack :
          /\ n <= c
          /\ prior \in [1..n -> (1..MaxHandle) \ {user_fd}]
          /\ rs = [data |-> [k \in 1..c |-> IF k <= n THEN prior[k] ELSE g],
                   size |-> n, cap |-> c]
          /\ people = n
    /\ lpc = "add"
    /\ lret = 0

\* ---------------------------------------------------- insert_into_rs_array
\* The possible results of insert_into_rs_array(&a, fd): the duplicate test
\* on the last entry, the doubling of a full array (realloc may fail and
\* leave data NULL, here the empty sequence), the store and size++.
insert_into_rs_array(a, fd) ==
    LET size == a.size
        grown(ok) ==
            IF a.size = a.cap
            THEN [a EXCEPT !.cap = 2 * a.cap,
                           !.data = IF ok
                                    THEN a.data \o [k \in 1..a.cap |-> 0]
                                    ELSE <<>>]
            ELSE a
        stored(b) == [b EXCEPT !.data[size + 1] = fd, !.size = size + 1]
    IN  {[ret |-> -EINVAL, rs |-> a] :
             x \in {r \in InsertRejects(Entries(a), fd) : r}}
        \cup {[ret |-> 0, rs |-> stored(grown(TRUE))] :
             x \in {r \in InsertRejects(Entries(a), fd) : ~r}}
        \cup {[ret |-> -ENOMEM, rs |-> grown(FALSE)] :
             x \in {r \in InsertRejects(Entries(a), fd) : ~r /\ a.size = a.cap}}

\* The join path's call: insert_into_rs_array and, when it returns 0,
\* room->num_people++.
ListAdd ==
    /\ lpc = "add"
    /\ \E res \in insert_into_rs_array(rs, user_fd) :
          /\ rs' = res.rs
          /\ lret' = res.ret
          /\ people' = IF res.ret = 0 THEN people + 1 ELSE people
    /\ lpc' = "remove"
    /\ UNCHANGED <<roomvars, bytevars, dirvars, user_fd, prior>>

\* ------------------------------------------------------------- remove_user
\* remove_user finds the descriptor among the first num_people slots, moves
\* the slots behind it one down (the last move reads slot num_people + 1,
\* which lies behind the array when it is full) and decrements size and
\* num_people.
ListRemove ==
    /\ lpc = "remove"
    /\ rs.data # <<>>
    /\ LET i == FirstIndex(rs.data, people, user_fd)
       IN  /\ i # 0
           /\ \E behind \in Slack :
                 LET ext == IF people < rs.cap
                            THEN SubSeq(rs.data, 1, people + 1)
                            ELSE rs.data \o <<behind>>
                 IN  /\ people < rs.cap => behind = 0
                     /\ rs' = [rs EXCEPT
                                 !.data = RemoveAt(ext, i)
                                            \o SubSeq(rs.data, people + 1, rs.cap),
                                 !.size = rs.size - 1]
           /\ people' = people - 1
    /\ lpc' = "removed"
    /\ UNCHANGED <<roomvars, bytevars, dirvars, user_fd, prior, lret>>

\* The descriptor is not among the first num_people slots: -ENOENT.
ListRemoveNotFound ==
    /\ lpc = "remove"
    /\ rs.data # <<>>
    /\ FirstIndex(rs.data, people, user_fd) = 0
    /\ lpc' = "notfound"
    /\ UNCHANGED <<roomvars, bytevars, dirvars, rs, people, user_fd, prior, lret>>

\* After a failed realloc data is NULL and the search reads through it.
ListRemoveNull ==
    /\ lpc = "remove"
    /\ rs.data = <<>>
    /\ lpc' = "killed"
    /\ UNCHANGED <<roomvars, bytevars, dirvars, rs, people, user_fd, prior, lret>>

\* -------------------------------------------------------------------- Next
ListNext ==
    \/ ListAdd
    \/ ListRemove
    \/ ListRemoveNotFound
    \/ ListRemoveNull

ListSpec == ListInit /\ [][ListNext]_vars

\* ================================================== the trie of utils.c
\* TrieSpec builds a trie with create_room of src/utils.c, hands one of its
\* rooms to delete_room and looks names up with search_room. A node is named
\* by the path that leads to it from trie_root (the empty path); a child
\* pointer is either NULL or the address of the node create_room made for
\* that slot, so a node records the set of its slots that are not NULL. A
\* freed node keeps its record: the memory is still there to be reached
\* through a pointer that was not cleared.

\* ------------------------------------------------------------------ bounds
MaxName == 3            \* longest room name drawn
MaxMade == 3            \* most rooms created

\* ------------------------------------------------------- program constants
\* The process is gone (a signal) instead of a value being returned.
Killed == -1

\* The bytes of the names drawn: a and b.
DirBytes == {97, 98}

DirNames == UNION {[1..n -> DirBytes] : n \in 1..MaxName}

\* init_trie_node: calloc leaves every field zero.
init_trie_node == [is_word |-> FALSE, room |-> NULL, child |-> {}, freed |-> FALSE]

\* init_trie: the root alone.
init_trie == [p \in {<<>>} |-> init_trie_node]

\* create_room of utils.c: make the missing nodes on the path, store the
\* new room r in the terminal node and set its is_word.
utils_create_room(t, room_name, r) ==
    LET path  == [i \in 1..Len(room_name) |-> toascii(room_name[i])]
        nodes == {SubSeq(path, 1, i) : i \in 0..Len(path)}
        old(p) == IF p \in DOMAIN t THEN t[p] ELSE init_trie_node
    IN  [p \in DOMAIN t \cup nodes |->
            IF p = path
            THEN [old(p) EXCEPT !.room = r, !.is_word = TRUE]
            ELSE IF p \in nodes
                 THEN [old(p) EXCEPT !.child = @ \cup {path[Len(p) + 1]}]
                 ELSE t[p]]

\* is_leaf: no child pointer of the node is set.
is_leaf(t, p) == t[p].child = {}

\* room_name[i] of the C string, i counted from 0: the terminating NUL
\* behind the last character.
CharAt(room_name, i) == IF i < Len(room_name) THEN room_name[i + 1] ELSE 0

RECURSIVE remove_from_trie(_, _, _, _, _)
\* remove_from_trie: yields the trie afterwards, the value returned and
\* whether a store went into a node already freed. The terminal node is
\* freed and unlinked from its parent; a node above it that is left without
\* children and is no word is freed, and its parent's pointer to it stays.
remove_from_trie(t, room_name, itr, len, i) ==
    LET j == toascii(CharAt(room_name, i))
        child == Append(itr, j)
    IN  IF j \notin t[itr].child
        THEN [t |-> t, ret |-> 0, stale |-> FALSE]
        ELSE IF t[child].is_word /\ i = len - 1
        THEN IF is_leaf(t, child)
             THEN [t |-> [t EXCEPT ![child].freed = TRUE,
                                   ![itr].child = @ \ {j},
                                   ![child].room = NULL],
                   ret |-> 1, stale |-> TRUE]
             ELSE [t |-> [t EXCEPT ![child].is_word = FALSE,
                                   ![child].room = NULL],
                   ret |-> 0, stale |-> FALSE]
        ELSE LET below == remove_from_trie(t, room_name, child, len, i + 1)
             IN  IF /\ below.ret = 1
                    /\ ~below.t[child].is_word
                    /\ child # <<>>
                    /\ is_leaf(below.t, child)
                 THEN [below EXCEPT !.t[child].freed = TRUE, !.ret = 1]
                 ELSE [below EXCEPT !.ret = 0]

\* The nodes a walk from trie_root can arrive at: every pointer on the way
\* is set.
Reachable(t) ==
    {p \in DOMAIN t :
        \A k \in 1..Len(p) : p[k] \in t[SubSeq(p, 1, k - 1)].child}

\* What a read of freed memory can produce: any pointer, or a signal.
Wild == {NULL, Killed} \cup {made[n] : n \in DOMAIN made}

RECURSIVE utils_walk(_, _, _, _)
\* search_room's loop from node itr; reading a freed node yields anything.
utils_walk(t, itr, room_name, i) ==
    IF t[itr].freed THEN Wild
    ELSE IF i > Len(room_name) THEN {t[itr].room}
    ELSE LET j == toascii(room_name[i])
         IN  IF j \notin t[itr].child THEN {NULL}
             ELSE utils_walk(t, Append(itr, j), room_name, i + 1)

\* search_room of utils.c: the values it can return.
utils_search_room(t, room_name) == utils_walk(t, <<>>, room_name, 1)

RECURSIVE Build(_, _, _)
\* The trie after create_room for each name of S, rooms numbered from r.
Build(t, S, r) ==
    IF S = {} THEN [t |-> t, made |-> <<>>]
    ELSE LET n == CHOOSE n \in S : \A m \in S : Len(n) <= Len(m)
             rest == Build(utils_create_room(t, n, r), S \ {n}, r + 1)
         IN  [rest EXCEPT !.made = (n :> r) @@ @]

\* -------------------------------------------------------------------- Init
TrieInit ==
    /\ falloff = 0
    /\ RoomInit
    /\ ByteIdle
    /\ ListIdle
    /\ \E S \in SUBSET DirNames :
          /\ S # {} /\ Cardinality(S) <= MaxMade
          /\ LET b == Build(init_trie, S, 1)
             IN  heap = b.t /\ made = b.made
          /\ doomed \in S
    /\ occupants \in {0, 1}
    /\ dpc = "delete"
    /\ sought = <<>>
    /\ got = NULL

\* ------------------------------------------------------------- delete_room
\* delete_room refuses a room that has members.
TrieDeleteRefused ==
    /\ dpc = "delete"
    /\ occupants # 0
    /\ dpc' = "refused"
    /\ got' = -EINVAL
    /\ sought' = <<>>
    /\ UNCHANGED <<roomvars, bytevars, listvars, heap, made, doomed,
                   occupants>>

\* delete_room of an empty room: remove_from_trie, then the room is freed.
\* After a store into freed memory the allocator may stop the process.
TrieDelete ==
    /\ dpc = "delete"
    /\ occupants = 0
    /\ LET r == remove_from_trie(heap, doomed, <<>>, Len(doomed), 0)
       IN  /\ heap' = r.t
           /\ dpc' \in {"deleted"} \cup (IF r.stale THEN {"killed"} ELSE {})
    /\ got' = 0
    /\ sought' = <<>>
    /\ UNCHANGED <<roomvars, bytevars, listvars, made, doomed, occupants>>

\* search_room for a name, before or after the deletion.
TrieSearch ==
    /\ dpc \in {"delete", "deleted"}
    /\ \E n \in DirNames :
          /\ sought' = n
          /\ got' \in utils_search_room(heap, n)
    /\ UNCHANGED <<roomvars, bytevars, listvars, heap, made, doomed,
                   occupants, dpc>>

\* -------------------------------------------------------------------- Next
TrieNext ==
    \/ TrieDeleteRefused
    \/ TrieDelete
    \/ TrieSearch

TrieSpec == TrieInit /\ [][TrieNext]_vars

\* ================================================================== claims
\* Vocabulary of the claims.

\* No upset has happened and the build's broadcast_msg reports success when
\* it succeeds: a run in which every failure is the program's own doing.
Undisturbed == faults = 0 /\ falloff = 0

\* The rooms the directory maps some name to.
Mapped == {trie[p] : p \in DOMAIN trie} \ {NULL}

\* Thread h has obtained a room for the name it read and has not begun to
\* leave (a leaving thread no longer carries the name).
Obtained(h) == th[h].user_room # <<>> /\ th[h].room # NULL

\* Thread h is on the join path for room r, between obtaining r and adding
\* its descriptor to r's member array.
Joining(h, r) == th[h].pc = "lockroom" /\ th[h].room = r

\* Every connection that was accepted has been served to the end.
AllGone == nconn >= 1 /\ \A h \in Handlers : th[h].pc \in {"idle", "done"}

\* ---------------------------------------------------------------------- C1
\* C1: in every reachable state every room that is present in the directory
\* has at least one member. Stated leniently: a room whose first member is
\* on its way in (a thread between create_room and insert_into_rs_array) is
\* let off, and so is every run with an upset.
C1_MappedRoomHasMember ==
    Undisturbed =>
        \A r \in Mapped :
            num_people[r] >= 1 \/ \E h \in Handlers : Joining(h, r)

\* ---------------------------------------------------------------------- C2
\* C2: once every client that joined has disconnected, a lookup of the
\* room's name finds no room (so that a later JOIN creates a fresh one).
C2_EmptiedRoomIsUnmapped ==
    (Undisturbed /\ AllGone) =>
        \A name \in RoomNames : search_room(trie, name) = NULL

\* ---------------------------------------------------------------------- C3
\* C3: the join path's get-or-create is atomic: any two threads that have
\* obtained a room for the same name hold the same room object.
C3_SameNameSameRoom ==
    \A h1, h2 \in Handlers :
        (Obtained(h1) /\ Obtained(h2) /\ th[h1].user_room = th[h2].user_room)
            => th[h1].room = th[h2].room

\* ------------------------------------------------- vocabulary of C4 .. C7
\* Thread h is inside a call of broadcast_msg.
Broadcasting(h) == th[h].pc \in {"bcast_lock", "bcast_write"}

\* In this step thread h's call of broadcast_msg returns.
BroadcastReturns(h) ==
    /\ Broadcasting(h)
    /\ \/ ~Broadcasting(h)'
       \/ th'[h].out_buff # th[h].out_buff

\* In this step a write of thread h's broadcast_msg fails (the call returns
\* at once, the room's mutex still locked).
BroadcastFails(h) ==
    /\ BroadcastReturns(h)
    /\ lock'[th[h].room] = h

\* The descriptor thread h's broadcast_msg writes to in its next step.
NextFd(h) ==
    user_fds[th[h].room][IF th[h].pc = "bcast_lock" THEN 1 ELSE th[h].bi]

\* In this step a write of thread h's broadcast_msg fails, and the descriptor
\* it fails on is not the broadcaster's own.
BroadcastFailsOnOther(h) ==
    /\ BroadcastFails(h)
    /\ NextFd(h) # th[h].clientfd

\* Message m is among those written to connection c, in the state a step
\* leads to.
ReceivedNext(c, m) == \E k \in 1..Len(wrote'[c]) : wrote'[c][k] = m

\* Connection c is up and its peer is there to be written to, in the state a
\* step leads to.
UpNext(c) == peerOpen'[c] /\ \E f \in FDs : fdtab'[f] = c

\* Connection c is a member of room r: its thread has added the descriptor
\* to r's array and has not begun to leave, and the descriptor is still c's.
ActiveMember(c, r) ==
    /\ th[c].room = r
    /\ th[c].user_room # <<>>
    /\ th[c].pc \in {"read", "bcast_lock", "bcast_write"}
    /\ fdtab[th[c].clientfd] = c
    /\ \E i \in 1..num_people[r] : user_fds[r][i] = th[c].clientfd

\* ---------------------------------------------------------------------- C4
\* C4: when the write to one member fails during a broadcast, the message is
\* still written to every other current member of the room, the broadcaster
\* included (those whose connection is up and whose peer is there to be
\* written to). Checked for the runs without an upset, where a write fails
\* only on a descriptor the program itself has closed.
C4_FailedWriteSparesOthers ==
    [][\A h \in Handlers :
          (BroadcastFails(h) /\ Undisturbed') =>
              \A c \in Handlers :
                  (/\ th[c].clientfd # NextFd(h)
                   /\ ActiveMember(c, th[h].room)
                   /\ UpNext(c))
                      => ReceivedNext(c, th[h].out_buff)]_vars

\* ---------------------------------------------------------------------- C5
\* C5: a write failure on some recipient does not make the broadcasting
\* handler fail: the sender of a join announcement or a line stays active
\* (it goes on to its next line or its next read). Checked for the runs
\* without an upset.
C5_BroadcasterSurvives ==
    [][\A h \in Handlers :
          (BroadcastFailsOnOther(h) /\ th[h].bctx # "left" /\ Undisturbed')
              => th'[h].pc \in {"read", "bcast_lock"}]_vars

\* ---------------------------------------------------------------------- C6
\* C6: no cross-room delivery: a join announcement or a line of a client
\* that joined name X is written only to clients whose own JOIN named
\* exactly X, byte for byte. (Checked for senders and recipients that still
\* carry the name they joined.)
C6_NoCrossRoomDelivery ==
    \A c \in Handlers : \A k \in 1..Len(wrote[c]) :
        LET m == wrote[c][k]
        IN  (/\ m.k \in {"joined", "line"}
             /\ th[m.from].user_room # <<>>
             /\ th[c].user_room # <<>>)
                => th[m.from].user_room = th[c].user_room

\* ---------------------------------------------------------------------- C7
\* C7: no line is lost: when B's broadcast of a line returns, every other
\* client A that is a member of B's room and still connected has received
\* the line.
C7_NoLineLost ==
    [][\A b \in Handlers :
          (BroadcastReturns(b) /\ th[b].bctx = "line")
              => \A a \in Handlers \ {b} :
                    (ActiveMember(a, th[b].room) /\ UpNext(a))
                        => ReceivedNext(a, th[b].out_buff)]_vars

\* ---------------------------------------------------------------------- C8
\* The messages broadcast_msg sends: announcements and lines.
IsBroadcast(m) == m.k \in {"joined", "line", "left"}

\* The broadcasts written to connection c so far.
Heard(c) == {m \in {wrote[c][k] : k \in 1..Len(wrote[c])} : IsBroadcast(m)}

\* Connection c was written m1 at some point and m2 at a later one.
Before(c, m1, m2) ==
    \E i, j \in 1..Len(wrote[c]) :
        i < j /\ wrote[c][i] = m1 /\ wrote[c][j] = m2

\* C8: within a single room all broadcasts are totally ordered: any two
\* connections that were both written broadcasts m1 and m2 of one room were
\* written them in the same relative order, under any interleaving of
\* concurrent senders.
C8_SameRelativeOrder ==
    \A c1, c2 \in Handlers :
        \A m1, m2 \in Heard(c1) \cap Heard(c2) :
            (m1 # m2 /\ m1.via = m2.via /\ Before(c1, m1, m2))
                => ~Before(c2, m2, m1)

\* Two connections have both been written the join announcements of two
\* different clients of one room: the second client was already a member,
\* its own announcement pending, while the first one's was sent.
C8_TwoSendersTwoReceivers ==
    \E c1, c2 \in Handlers : \E a, b \in Handlers : \E r \in Rooms :
        /\ c1 # c2
        /\ a # b
        /\ Before(c1, JoinMsg(a, r), JoinMsg(b, r))
        /\ Before(c2, JoinMsg(a, r), JoinMsg(b, r))

\* ---------------------------------------------------------------------- C9
\* C9: no client handle (descriptor) ever appears twice in a room's member
\* list, descriptor numbers being reused by later connections. Checked for
\* the runs without an upset.
C9_NoHandleTwice ==
    Undisturbed =>
        \A r \in Rooms : \A i, j \in 1..Len(user_fds[r]) :
            i # j => user_fds[r][i] # user_fds[r][j]

\* --------------------------------------------------------------------- C10
\* C10: the join announcement is broadcast after the client's handle has
\* been added, so the joining client receives its own join announcement
\* (when its broadcast returns and its connection is up, the announcement has
\* been written to it), and receives it before any line of its own. Checked
\* for the runs without an upset.
C10_JoinerHearsOwnJoinFirst ==
    [][Undisturbed' =>
          \A h \in Handlers :
              /\ (/\ BroadcastReturns(h)
                  /\ th[h].bctx = "join"
                  /\ fdtab'[th[h].clientfd] = h
                  /\ UpNext(h))
                     => ReceivedNext(h, th[h].out_buff)
              /\ \A k \in 1..Len(wrote'[h]) :
                    (wrote'[h][k].k = "line" /\ wrote'[h][k].from = h)
                        => \E j \in 1..(k - 1) :
                              wrote'[h][j] = JoinMsg(h, wrote'[h][k].via)]_vars

\* --------------------------------------------------------------------- C11
\* C11: the leave announcement of a client is broadcast only after the
\* client's handle has been removed from the member list (while a thread
\* broadcasts its leave announcement no entry of the room's array refers to
\* that thread's connection), so the departing client's connection is never
\* written its own leave announcement.
C11_LeaveAfterRemoval ==
    \A h \in Handlers :
        /\ (Broadcasting(h) /\ th[h].bctx = "left")
              => \A i \in 1..num_people[th[h].room] :
                    fdtab[user_fds[th[h].room][i]] # h
        /\ \A k \in 1..Len(wrote[h]) :
              ~(wrote[h][k].k = "left" /\ wrote[h][k].from = h)

\* A departed client's leave announcement has been written to a member that
\* stayed in the room.
C11_LeaveHeardByOther ==
    \E h, c \in Handlers :
        /\ h # c
        /\ th[h].pc = "done"
        /\ \E k \in 1..Len(wrote[c]) :
              wrote[c][k].k = "left" /\ wrote[c][k].from = h

\* --------------------------------------------------------------------- C12
\* Room r's mutex is held by a thread that is not inside broadcast_msg's
\* loop: it returned from a critical section without unlocking, and no code
\* it has yet to run unlocks.
LeakedLock(r) == lock[r] # 0 /\ th[lock[r]].pc # "bcast_write"

\* C12: when an active client's connection has ended, every member that
\* remains in the room eventually receives the client's leave announcement.
\* Stated as what that needs at every moment: while the leaving thread waits
\* for the room's mutex in remove_user and a member remains whose connection
\* is up, the mutex is not one that will never be released. Checked for the
\* runs without an upset.
C12_LeaveGoesThrough ==
    Undisturbed =>
        \A h \in Handlers :
            (/\ th[h].pc = "rm_lock"
             /\ th[h].leaving
             /\ \E c \in Handlers \ {h} :
                   /\ ActiveMember(c, th[h].room)
                   /\ peerOpen[c]
                   /\ th[c].pc = "read")
                => ~LeakedLock(th[h].room)

\* ------------------------------------------------ vocabulary of C13 .. C19
\* The newline-terminated frames of a byte sequence, without their newlines;
\* bytes after the last newline belong to no frame.
RECURSIVE Frames(_)
Frames(s) ==
    LET pos == strchr(s, MSG_DELIMETER)
    IN  IF pos = 0 THEN <<>> ELSE <<Take(s, pos - 1)>> \o Frames(Drop(s, pos))

NonEmpty(f) == f # <<>>

\* The message that carries text as a line of nick's.
UserLine(nick, text) == nick \o <<58, SP>> \o text \o <<MSG_DELIMETER>>

\* What has been broadcast for the connection after its join announcement,
\* the leave announcement that ends a closed connection's broadcasts aside.
LinesSent ==
    IF first_frame
    THEN <<>>
    ELSE SubSeq(sent, 2, IF bpc = "closed" THEN Len(sent) - 1 ELSE Len(sent))

IsPrefix(s, t) == Len(s) <= Len(t) /\ \A i \in 1..Len(s) : s[i] = t[i]

\* The number of bytes the handler has read.
Consumed == Len(given) - Len(stream)

\* The white-space separated tokens of a frame.
RECURSIVE Tokens(_)
Tokens(f) ==
    LET f1 == Drop(f, strspn(f, WhiteSpace))
        tok == Take(f1, strcspn(f1, WhiteSpace))
    IN  IF f1 = <<>> THEN <<>> ELSE <<tok>> \o Tokens(Drop(f1, Len(tok)))

ToUpper(c) == IF c \in 97..122 THEN c - 32 ELSE c

\* The first frame of a stream that holds a newline: the bytes before it.
FirstFrame(s) == Take(s, strchr(s, MSG_DELIMETER) - 1)

\* A first frame as the protocol wants it: JOIN in any case, a room and a
\* nick of 1 to 20 bytes, and nothing else.
WellFormed(f) ==
    LET t == Tokens(f)
    IN  /\ Len(t) = 3
        /\ [i \in 1..Len(t[1]) |-> ToUpper(t[1][i])] = JOIN
        /\ Len(t[2]) \in 1..(MAX_ROOMNAME_LEN - 1)
        /\ Len(t[3]) \in 1..(MAX_USERNAME_LEN - 1)

\* The handler has read the first frame of the stream, newline included.
FirstFrameRead ==
    /\ strchr(given, MSG_DELIMETER) # 0
    /\ Consumed >= strchr(given, MSG_DELIMETER)

\* --------------------------------------------------------------------- C13
\* C13: however the stream "JOIN a b\n" + payload is split into reads, the
\* user lines broadcast are the non-empty newline-terminated lines of the
\* payload in stream order: at every moment a prefix of them, and all of them
\* once the client has closed and the handler has ended.
C13_LinesAreFrames ==
    \A p \in Payloads :
        (given = JoinAB \o p /\ ~first_frame)
            => LET lines == SelectSeq(Frames(p), NonEmpty)
                   want == [i \in 1..Len(lines) |-> UserLine(<<98>>, lines[i])]
               IN  /\ IsPrefix(LinesSent, want)
                   /\ (bpc = "closed" /\ stream = <<>>) => LinesSent = want

\* --------------------------------------------------------------------- C14
\* The longest frame the specification lets through: in_buff less the byte
\* of the newline.
MAX_FRAME == MAX_BUFF_LEN - 1

\* Bytes k+1 .. e of s are a frame of more than MAX_FRAME bytes and the
\* newline that ends it.
OversizeFrame(s, k, e) ==
    /\ e <= Len(s)
    /\ e - k - 1 > MAX_FRAME
    /\ k = 0 \/ s[k] = MSG_DELIMETER
    /\ \A i \in (k + 1)..(e - 1) : s[i] # MSG_DELIMETER
    /\ s[e] = MSG_DELIMETER

\* C14: once a joined handler has read a frame of more than MAX_FRAME bytes
\* up to the newline that ends it, it has written ERROR to its client and
\* closed the connection (stated for the runs in which no read has filled
\* in_buff, so that every string function stays inside the array).
C14_OversizeFrameTerminates ==
    \A k \in Len(JoinAB)..Len(given), e \in 1..Len(given) :
        (/\ Take(given, Len(JoinAB)) = JoinAB
         /\ OversizeFrame(given, k, e)
         /\ Consumed >= e
         /\ Len(in_buff) < MAX_BUFF_LEN)
            => bpc = "closed" /\ reply = error_buff

\* --------------------------------------------------------------------- C15
\* C15: once the handler has read a malformed first frame, it has written
\* ERROR to the client and closed the connection, it has not joined and
\* nothing has been broadcast.
C15_MalformedJoinRejected ==
    (FirstFrameRead /\ ~WellFormed(FirstFrame(given)))
        => /\ bpc = "closed"
           /\ reply = error_buff
           /\ first_frame
           /\ sent = <<>>

\* --------------------------------------------------------------------- C16
\* C16: the handler joins on the first frame it has read if and only if the
\* frame is three white-space separated tokens, JOIN in any case, then a room
\* and a nick of 1 to 20 bytes each.
C16_AcceptsIffWellFormed ==
    FirstFrameRead => (~first_frame <=> WellFormed(FirstFrame(given)))

\* --------------------------------------------------------------------- C17
\* C17: a failure of create_room leaves the process serving: no handler is
\* left inside the creation of a room, trie_lock in hand, in a process that
\* has died.
C17_ServesAfterCreateFailure ==
    \A h \in Handlers :
        (th[h].pc = "create" /\ trie_lock = h) => ~crashed

\* --------------------------------------------------------------------- C18
\* The announcements as the protocol words them.
HasJoined == <<32, 104, 97, 115, 32, 106, 111, 105, 110, 101, 100, 10>>
                                                            \* " has joined\n"
HasLeft == <<32, 104, 97, 115, 32, 108, 101, 102, 116, 10>>   \* " has left\n"

\* C18: the join announcement broadcast for a connection is exactly
\* "<nick> has joined\n" and its leave announcement exactly
\* "<nick> has left\n", with one newline, the last byte (stated for the
\* client that joins with "JOIN a b\n").
C18_AnnouncementBytes ==
    (Take(given, Len(JoinAB)) = JoinAB /\ ~first_frame)
        => /\ sent[1] = user_name \o HasJoined
           /\ bpc = "closed" => sent[Len(sent)] = user_name \o HasLeft

\* --------------------------------------------------------------------- C19
\* C19: when the client closes without having sent a byte, the handler ends
\* with the connection closed and nothing written to the client or broadcast.
C19_SilentCloseBeforeJoin ==
    (given = <<>> /\ bpc = "closed")
        => reply = <<>> /\ sent = <<>> /\ first_frame

\* --------------------------------------------------------------------- C20
\* Handler c is on the leave path and remove_user has taken its descriptor
\* out of the member array; the close that follows has not happened yet.
HasRemovedItself(c) == th[c].pc = "rm_close" /\ th[c].leaving

\* In this step connection c is written a broadcast of another handler's.
WrittenByOther(c) ==
    /\ Len(wrote'[c]) = Len(wrote[c]) + 1
    /\ IsBroadcast(wrote'[c][Len(wrote'[c])])
    /\ wrote'[c][Len(wrote'[c])].from # c

\* C20: once a handler has entered the leave path and removed its descriptor
\* from the room's member array, no broadcast of another handler's is written
\* to its connection.
C20_NoWriteAfterRemoval ==
    [][\A c \in Handlers : HasRemovedItself(c) => ~WrittenByOther(c)]_vars

\* --------------------------------------------------------------------- C21
\* C21: when a descriptor that is not in a member array has been added to it
\* and removed again, the array's entries and its size (and the room's
\* num_people) are what they were before the add.
C21_AddThenRemoveRestores ==
    (lpc = "removed" /\ lret = 0)
        => /\ Entries(rs) = prior
           /\ rs.size = Len(prior)
           /\ people = Len(prior)

\* An add into a full array that holds other descriptors, and its removal.
C21_RemovedFromGrownArray ==
    /\ lpc = "removed"
    /\ lret = 0
    /\ Len(prior) = INIT_ARR_CAP
    /\ rs.cap = 2 * INIT_ARR_CAP
    /\ prior[1] # prior[2]

\* --------------------------------------------------------------------- C22
\* Thread h's next step locks trie_lock: the search of a JOIN just read, or
\* the creation of the room.
TriesDirectory(h) ==
    \/ th[h].pc = "create"
    \/ th[h].pc = "read" /\ th[h].new_request

\* Thread h holds the mutex of some room.
HoldsRoom(h) == \E r \in Rooms : lock[r] = h

\* C22: no handler that is about to lock trie_lock, or that holds it, has
\* locked a room mutex before: the directory is always locked first.
C22_DirectoryBeforeRoom ==
    \A h \in Handlers :
        (TriesDirectory(h) \/ trie_lock = h) => ~HoldsRoom(h)

\* A handler that went through the directory holds its room's mutex while
\* another handler is about to lock the directory.
C22_RoomHeldDirectoryWanted ==
    \E h, g \in Handlers :
        /\ h # g
        /\ th[h].room # NULL
        /\ lock[th[h].room] = h
        /\ TriesDirectory(g)
        /\ g \in {fdtab[f] : f \in FDs}

\* --------------------------------------------------------------------- C23
\* Room r's member list is changed in this step.
ListChanges(r) ==
    user_fds'[r] # user_fds[r] \/ num_people'[r] # num_people[r]

\* C23: a handler inside the loop of broadcast_msg, which reads the member
\* list, holds the room's mutex; and the member list of a room changes only
\* in a step that finds the room's mutex free and takes it (join path and
\* remove_user lock, change and unlock in one step), never while another
\* handler holds it.
C23_ListUnderMutex ==
    /\ [](\A h \in Handlers :
             th[h].pc = "bcast_write" => lock[th[h].room] = h)
    /\ [][\A r \in Rooms : ListChanges(r) => lock[r] = 0]_vars

\* A handler is inside the loop of broadcast_msg with the room's mutex, and
\* another handler waits to add itself to the same room or to remove itself.
C23_WaitsForBroadcaster ==
    \E h, g \in Handlers :
        /\ h # g
        /\ th[h].pc = "bcast_write"
        /\ lock[th[h].room] = h
        /\ th[g].pc \in {"lockroom", "rm_lock"}
        /\ th[g].room = th[h].room

\* --------------------------------------------------------------------- C24
\* C24: every mutex that is locked is locked by a handler inside a critical
\* section, which will unlock it: no room mutex is owned by a handler that
\* has left the section without unlocking (stated for the runs without any
\* upset, in which no write fails and no allocation fails).
C24_EveryLockReleased ==
    Undisturbed => \A r \in Rooms : ~LeakedLock(r)

\* --------------------------------------------------------------------- C25
\* Descriptor f, which refers to a connection, is closed in this step.
Closes(f) == fdtab[f] # 0 /\ fdtab'[f] = 0

\* C25: a descriptor is closed only by the handler of the connection it
\* refers to: in a step that closes a descriptor it is that connection's
\* handler that moves (stated for the runs without any upset).
C25_ClosesOwnConnectionOnly ==
    [][\A f \in FDs :
          (Undisturbed /\ Closes(f)) => th'[fdtab[f]] # th[fdtab[f]]]_vars


\* The nodes a walk from the root can arrive at are all unfreed.
ReachableLive == \A p \in Reachable(heap) : ~heap[p].freed

\* The last call was search_room for name n.
Searched(n) == sought = n

\* C26: after delete_room on an empty room R, search_room of R's name finds
\* no room, search_room of every other mapped name (prefixes and extensions
\* of R's name included) returns the room it returned before, and every trie
\* node still reachable from the root is a live, unfreed node.
C26_DeleteRoomKeepsDirectory ==
    dpc = "deleted" =>
        /\ ReachableLive
        /\ Searched(doomed) => got = NULL
        /\ \A n \in DOMAIN made \ {doomed} : Searched(n) => got = made[n]

====
